---- MODULE Spec2Model ----
(***************************************************************************)
(* Model of KeepAlive/keepalive.c: enable_keepalive(sock, enable_keepalive, *)
(* time, interval, maxpkt) issues four setsockopt calls on sock, each       *)
(* wrapped in the check() macro, which returns 0 from the function as soon  *)
(* as a call yields -1; after the fourth call the function returns 1.       *)
(*                                                                          *)
(* The kernel is the environment.  A setsockopt call on a descriptor that   *)
(* is not an open socket yields -1; on an open socket the kernel either     *)
(* accepts the call (0) and stores the value, or rejects it (-1) and leaves *)
(* the option as it was.  Whether the kernel accepts is not decided by the  *)
(* source, so every call draws it from BOOLEAN.                             *)
(***************************************************************************)
EXTENDS Integers, Sequences, FiniteSets, TLC

\* ------------------------------------------------------------- bounds
\* Values of enable_keepalive are drawn from 0..MaxEnable: 0 (off), 1 (on) and
\* nonzero values other than 1.
MaxEnable == 2

Enables == 0..MaxEnable

\* Values of time, interval and maxpkt.  The function hands them to the
\* kernel without reading them, so two distinct values show every case:
\* 0, which is also what a fresh socket holds, and 1.
Vals == {0, 1}

\* Socket descriptors the callers hold, and the calling threads.
Socks == {3, 4}
Threads == {"A", "B"}

\* ------------------------------------------------------------ options
SO_KEEPALIVE == "SO_KEEPALIVE"
TCP_KEEPIDLE == "TCP_KEEPIDLE"
TCP_KEEPINTVL == "TCP_KEEPINTVL"
TCP_KEEPCNT == "TCP_KEEPCNT"
Opts == {SO_KEEPALIVE, TCP_KEEPIDLE, TCP_KEEPINTVL, TCP_KEEPCNT}

VARIABLES
  open,     \* open[s]: descriptor s is an open stream socket
  opts,     \* opts[s][o]: what getsockopt reads for option o of socket s
  pc,       \* pc[t]: "idle", the line thread t executes next, or "returned"
  sock,     \* sock[t]: parameter sock of thread t's invocation
  args,     \* args[t]: the four value parameters of thread t's invocation
  ret,      \* ret[t]: the value returned (read only when pc[t] = "returned")
  issued,   \* issued[t]: the setsockopt calls of the invocation, with results
  pre,      \* pre[t]: opts when the invocation was entered
  rep       \* rep[t]: how the invocation relates to thread t's previous one

vars == <<open, opts, pc, sock, args, ret, issued, pre, rep>>

\* ------------------------------------------------------ the platform
\* The value getsockopt reads back after an accepted setsockopt.  SO_KEEPALIVE
\* is a boolean socket flag: the kernel keeps whether the int was nonzero
\* and reads it back as 0 or 1.  The three TCP options read back the value
\* that was set.
Stored(o, v) ==
  IF o = SO_KEEPALIVE THEN (IF v # 0 THEN 1 ELSE 0) ELSE v

\* The result of setsockopt on descriptor s: -1 when s is not an open
\* socket or the kernel rejects the call, 0 otherwise.
SetSockOptRc(s, accept) ==
  IF open[s] /\ accept THEN 0 ELSE -1

\* A mutant: every setsockopt writes process-wide state, the option of every
\* socket.
SetSockOptShared(cur, s, o, v, rc) ==
  IF rc # -1 THEN [x \in Socks |-> [cur[x] EXCEPT ![o] = Stored(o, v)]] ELSE cur

\* A mutant: the value is added to the option instead of replacing it.
SetSockOptAccumulate(cur, s, o, v, rc) ==
  IF rc # -1
    THEN [cur EXCEPT ![s][o] = Stored(o, (cur[s][o] + v) % 2)]
    ELSE cur

\* The option table after setsockopt(s, level, o, &v, sizeof(int)) with
\* result rc: an accepted call replaces option o of socket s alone, a failed
\* call changes nothing.
SetSockOpt(cur, s, o, v, rc) ==
  IF rc # -1 THEN [cur EXCEPT ![s][o] = Stored(o, v)] ELSE cur

\* ------------------------------------------------------- the function
\* A mutant: lines 8 and 9 issued in the other order.
OptAtSwapped(line) ==
  CASE line = "line7" -> SO_KEEPALIVE
    [] line = "line8" -> TCP_KEEPINTVL
    [] line = "line9" -> TCP_KEEPIDLE
    [] line = "line10" -> TCP_KEEPCNT

\* The option each line sets.
OptAt(line) ==
  CASE line = "line7" -> SO_KEEPALIVE
    [] line = "line8" -> TCP_KEEPIDLE
    [] line = "line9" -> TCP_KEEPINTVL
    [] line = "line10" -> TCP_KEEPCNT

\* A mutant: each call passes the next parameter over.
ArgOfShifted(o, a) ==
  CASE o = SO_KEEPALIVE -> a.time
    [] o = TCP_KEEPIDLE -> a.interval
    [] o = TCP_KEEPINTVL -> a.maxpkt
    [] o = TCP_KEEPCNT -> a.enable_keepalive

\* A mutant: line 7 passes a constant 1 where it should pass the parameter.
ArgOfAlwaysEnable(o, a) ==
  CASE o = SO_KEEPALIVE -> 1
    [] o = TCP_KEEPIDLE -> a.time
    [] o = TCP_KEEPINTVL -> a.interval
    [] o = TCP_KEEPCNT -> a.maxpkt

\* The parameter each call passes as the option's value.
ArgOf(o, a) ==
  CASE o = SO_KEEPALIVE -> a.enable_keepalive
    [] o = TCP_KEEPIDLE -> a.time
    [] o = TCP_KEEPINTVL -> a.interval
    [] o = TCP_KEEPCNT -> a.maxpkt

\* A mutant: the result of setsockopt is not checked.
CheckNever(rc) == TRUE

\* The macro check(expr) with expr: setsockopt(...) != -1.  The function goes
\* on to the next line when it holds and returns 0 when it does not.
Check(rc) == rc # -1

\* The value of "return 1" after the fourth call.
ReturnSuccess == 1

\* A mutant: the check macro returns 1.
ReturnFailureAsSuccess == ReturnSuccess

\* The value the check macro returns.
ReturnFailure == 0

\* A mutant: a failed check puts the option table back as it was when the
\* function was entered.
FailureReturnRestores(cur, before) == before

\* The option table after the check macro's failure branch, { return 0; }:
\* the branch does nothing but return, so the table stays as the calls left
\* it (`before` is the table when the function was entered).
FailureReturn(cur, before) == cur

\* The line after `line`, or "returned" after the last one.
NextLine(line) ==
  CASE line = "line7" -> "line8"
    [] line = "line8" -> "line9"
    [] line = "line9" -> "line10"
    [] line = "line10" -> "returned"

Args == [enable_keepalive : Enables, time : Vals, interval : Vals, maxpkt : Vals]

\* Every setsockopt call of the log was accepted, and there were four.
AllAccepted(log) ==
  Len(log) = 4 /\ \A i \in 1..4 : log[i].rc # -1

\* ----------------------------------------------------------- actions
\* A fresh socket has keepalive off and the three TCP options unset (0: the
\* system-wide default applies).
Unset == [o \in Opts |-> 0]

NoArgs == [enable_keepalive |-> 0, time |-> 0, interval |-> 0, maxpkt |-> 0]

Init ==
  /\ open \in [Socks -> BOOLEAN]
  /\ opts = [s \in Socks |-> Unset]
  /\ pc = [t \in Threads |-> "idle"]
  /\ sock = [t \in Threads |-> CHOOSE s \in Socks : \A x \in Socks : s <= x]
  /\ args = [t \in Threads |-> NoArgs]
  /\ ret = [t \in Threads |-> 0]
  /\ issued = [t \in Threads |-> << >>]
  /\ pre = [t \in Threads |-> opts]
  /\ rep = [t \in Threads |-> "no"]

\* Thread t enters enable_keepalive(s, a.enable_keepalive, a.time, a.interval,
\* a.maxpkt).  rep records whether this repeats, on the same socket with the
\* same parameters, an invocation whose four calls the kernel accepted, and
\* what that invocation returned.
Invoke(t, s, a) ==
  /\ pc[t] \in {"idle", "returned"}
  /\ pc' = [pc EXCEPT ![t] = "line7"]
  /\ sock' = [sock EXCEPT ![t] = s]
  /\ args' = [args EXCEPT ![t] = a]
  /\ ret' = [ret EXCEPT ![t] = 0]
  /\ issued' = [issued EXCEPT ![t] = << >>]
  /\ pre' = [pre EXCEPT ![t] = opts]
  /\ rep' = [rep EXCEPT ![t] =
               IF pc[t] = "returned" /\ sock[t] = s /\ args[t] = a
                  /\ AllAccepted(issued[t])
                 THEN (IF ret[t] = ReturnSuccess THEN "true" ELSE "false")
                 ELSE "no"]
  /\ UNCHANGED <<open, opts>>

\* Thread t executes check(setsockopt(sock, level, OptAt(line), &arg,
\* sizeof(int)) != -1) at `line`; accept is the kernel's verdict.
CheckedSetSockOpt(t, line, accept) ==
  LET o == OptAt(line)
      rc == SetSockOptRc(sock[t], accept)
  IN
  /\ pc[t] = line
  /\ opts' = IF Check(rc)
               THEN SetSockOpt(opts, sock[t], o, ArgOf(o, args[t]), rc)
               ELSE FailureReturn(SetSockOpt(opts, sock[t], o, ArgOf(o, args[t]), rc),
                                  pre[t])
  /\ issued' = [issued EXCEPT ![t] = Append(@, [opt |-> o, rc |-> rc])]
  /\ IF Check(rc)
       THEN /\ pc' = [pc EXCEPT ![t] = NextLine(line)]
            /\ ret' = [ret EXCEPT ![t] =
                         IF NextLine(line) = "returned" THEN ReturnSuccess ELSE @]
       ELSE /\ pc' = [pc EXCEPT ![t] = "returned"]
            /\ ret' = [ret EXCEPT ![t] = ReturnFailure]
  /\ UNCHANGED <<open, sock, args, pre, rep>>

SetKeepAlive(t) == \E accept \in BOOLEAN : CheckedSetSockOpt(t, "line7", accept)
SetKeepIdle(t) == \E accept \in BOOLEAN : CheckedSetSockOpt(t, "line8", accept)
SetKeepIntvl(t) == \E accept \in BOOLEAN : CheckedSetSockOpt(t, "line9", accept)
SetKeepCnt(t) == \E accept \in BOOLEAN : CheckedSetSockOpt(t, "line10", accept)

Run(t) ==
  \/ SetKeepAlive(t)
  \/ SetKeepIdle(t)
  \/ SetKeepIntvl(t)
  \/ SetKeepCnt(t)

\* One caller, invoking the function again and again.
Next ==
  \E t \in {"A"} :
    \/ \E s \in Socks, a \in Args : Invoke(t, s, a)
    \/ Run(t)

Spec == Init /\ [][Next]_vars

\* Two threads, each invoking the function once; their calls interleave.
NextConc ==
  \E t \in Threads :
    \/ \E s \in Socks, a \in Args : pc[t] = "idle" /\ Invoke(t, s, a)
    \/ Run(t)

SpecConc == Init /\ [][NextConc]_vars

\* ============================================================ claims
Returned(t) == pc[t] = "returned"
Entered(t) == pc[t] # "idle"

\* The four settings in the order the specification gives them.
Order == <<SO_KEEPALIVE, TCP_KEEPIDLE, TCP_KEEPINTVL, TCP_KEEPCNT>>

\* What a socket reads back once all of a's values were applied: keepalive
\* on (1) exactly when enable_keepalive is nonzero, the other three as given.
Requested(a) ==
  [o \in Opts |->
     CASE o = SO_KEEPALIVE -> (IF a.enable_keepalive = 0 THEN 0 ELSE 1)
       [] o = TCP_KEEPIDLE -> a.time
       [] o = TCP_KEEPINTVL -> a.interval
       [] o = TCP_KEEPCNT -> a.maxpkt]

\* The parameters taken literally as the four settings.
Literal(a) ==
  [o \in Opts |->
     CASE o = SO_KEEPALIVE -> a.enable_keepalive
       [] o = TCP_KEEPIDLE -> a.time
       [] o = TCP_KEEPINTVL -> a.interval
       [] o = TCP_KEEPCNT -> a.maxpkt]

\* The log has a failed call.
SomeFailed(log) == \E i \in 1..Len(log) : log[i].rc = -1

\* The log is k calls long, the first k - 1 accepted and the last one failed.
FailedAtStep(log, k) ==
  /\ Len(log) = k
  /\ \A i \in 1..(k - 1) : log[i].rc # -1
  /\ log[k].rc = -1

\* ---------------------------------------------------------------- C1
\* C1 as stated: whenever the platform accepted all four calls, the function
\* has returned 1 and the four settings of the socket equal enable_keepalive,
\* time, interval and maxpkt.
C1_SettingsEqualParameters ==
  \A t \in Threads :
    Returned(t) /\ AllAccepted(issued[t])
      => ret[t] = 1 /\ opts[sock[t]] = Literal(args[t])

\* C1 amended: whenever the platform accepted all four calls, the function
\* has returned 1, TCP_KEEPIDLE, TCP_KEEPINTVL and TCP_KEEPCNT equal time,
\* interval and maxpkt, and SO_KEEPALIVE reads 1 when enable_keepalive is
\* nonzero and 0 when it is zero.
C1_SettingsReflectParameters ==
  \A t \in Threads :
    Returned(t) /\ AllAccepted(issued[t])
      => ret[t] = 1 /\ opts[sock[t]] = Requested(args[t])

C1_Witness ==
  \E t \in Threads :
    /\ Returned(t) /\ AllAccepted(issued[t]) /\ ret[t] = 1
    /\ args[t] = [enable_keepalive |-> 2, time |-> 1, interval |-> 0, maxpkt |-> 1]
    /\ pre[t][sock[t]] = [o \in Opts |-> IF o = TCP_KEEPINTVL THEN 1 ELSE 0]
    /\ opts[sock[t]][SO_KEEPALIVE] = 1
    /\ opts[sock[t]][TCP_KEEPIDLE] = 1
    /\ opts[sock[t]][TCP_KEEPINTVL] = 0

\* ---------------------------------------------------------------- C2
\* C2: the function returns 0 exactly when some setsockopt call failed and 1
\* exactly when four calls were issued and all succeeded; a failed call is
\* the last call of its invocation, which has returned 0 at once.
C2_FalseIffFirstFailureStops ==
  \A t \in Threads :
    /\ Returned(t) => (ret[t] = 0 <=> SomeFailed(issued[t]))
    /\ Returned(t) => (ret[t] = 1 <=> AllAccepted(issued[t]))
    /\ \A i \in 1..Len(issued[t]) :
         issued[t][i].rc = -1
           => i = Len(issued[t]) /\ Returned(t) /\ ret[t] = 0

C2_Witness ==
  \E t \in Threads :
    /\ Returned(t) /\ ret[t] = 0
    /\ open[sock[t]]
    /\ FailedAtStep(issued[t], 2)

\* ---------------------------------------------------------------- C3
\* C3: at every moment the calls an invocation has issued are a prefix of
\* the fixed order keepalive, idle time, probe interval, max probes; each
\* call but the last one issued has succeeded; no more than four are issued.
C3_CallsArePrefixOfOrder ==
  \A t \in Threads :
    /\ Len(issued[t]) <= 4
    /\ \A i \in 1..Len(issued[t]) :
         /\ issued[t][i].opt = Order[i]
         /\ i < Len(issued[t]) => issued[t][i].rc # -1

C3_Witness ==
  \E t \in Threads :
    /\ Returned(t)
    /\ FailedAtStep(issued[t], 3)
    /\ issued[t][3].opt = TCP_KEEPINTVL

\* ---------------------------------------------------------------- C4
\* C4: when the function has returned 0 because step k (2..4) failed, every
\* setting of steps 1..k-1 holds the value requested in this invocation (for
\* keepalive: on or off as requested); none was put back.
C4_NoRollback ==
  \A t \in Threads : \A k \in 2..4 :
    Returned(t) /\ ret[t] = 0 /\ FailedAtStep(issued[t], k)
      => \A j \in 1..(k - 1) :
           opts[sock[t]][Order[j]] = Requested(args[t])[Order[j]]

C4_Witness ==
  \E t \in Threads :
    /\ Returned(t) /\ ret[t] = 0
    /\ FailedAtStep(issued[t], 3)
    /\ args[t].enable_keepalive = 1 /\ args[t].time = 1
    /\ pre[t][sock[t]][SO_KEEPALIVE] = 0 /\ pre[t][sock[t]][TCP_KEEPIDLE] = 0
    /\ opts[sock[t]][SO_KEEPALIVE] = 1 /\ opts[sock[t]][TCP_KEEPIDLE] = 1

\* ---------------------------------------------------------------- C5
\* C5: when the platform accepted the keepalive step and rejected the idle
\* time, the function has returned 0, keepalive is on or off as requested,
\* and idle time, probe interval and max probes are what they were when the
\* function was entered.
C5_IdleRejectedLeavesRestUnchanged ==
  \A t \in Threads :
    /\ Len(issued[t]) >= 2
    /\ issued[t][1].rc # -1
    /\ issued[t][2].rc = -1
    => /\ Returned(t) /\ ret[t] = 0
       /\ Len(issued[t]) = 2
       /\ opts[sock[t]][SO_KEEPALIVE] = Requested(args[t])[SO_KEEPALIVE]
       /\ \A o \in {TCP_KEEPIDLE, TCP_KEEPINTVL, TCP_KEEPCNT} :
            opts[sock[t]][o] = pre[t][sock[t]][o]

C5_Witness ==
  \E t \in Threads :
    /\ Returned(t) /\ FailedAtStep(issued[t], 2) /\ ret[t] = 0
    /\ args[t] = [enable_keepalive |-> 1, time |-> 0, interval |-> 0, maxpkt |-> 0]
    /\ pre[t][sock[t]] = [o \in Opts |-> IF o = SO_KEEPALIVE THEN 0 ELSE 1]
    /\ opts[sock[t]] = [o \in Opts |-> 1]

\* ---------------------------------------------------------------- C6
\* C6: on a descriptor that is not an open socket the function issues the
\* keepalive call alone, which fails, and returns 0, whatever the four
\* values; meanwhile no setting of any socket changes.
C6_InvalidHandleFails ==
  \A t \in Threads :
    Entered(t) /\ ~open[sock[t]]
      => /\ opts = pre[t]
         /\ Len(issued[t]) <= 1
         /\ Returned(t) =>
              /\ ret[t] = 0
              /\ issued[t] = <<[opt |-> SO_KEEPALIVE, rc |-> -1]>>

C6_Witness ==
  \E t \in Threads : \E s \in Socks :
    /\ Returned(t) /\ ~open[sock[t]] /\ ret[t] = 0
    /\ args[t] = [enable_keepalive |-> 1, time |-> 1, interval |-> 1, maxpkt |-> 1]
    /\ open[s] /\ opts[s] = [o \in Opts |-> IF o = TCP_KEEPCNT THEN 0 ELSE 1]

\* ---------------------------------------------------------------- C7
\* C7: when an invocation repeats the one before it (same socket, same
\* values, no other writer) and the platform accepts the four calls both
\* times, both return 1 and the settings after the second are those after
\* the first.
C7_Idempotent ==
  \A t \in Threads :
    Returned(t) /\ rep[t] # "no" /\ AllAccepted(issued[t])
      => /\ rep[t] = "true"
         /\ ret[t] = 1
         /\ opts[sock[t]] = pre[t][sock[t]]

C7_Witness ==
  \E t \in Threads :
    /\ Returned(t) /\ rep[t] = "true" /\ AllAccepted(issued[t]) /\ ret[t] = 1
    /\ args[t] = [enable_keepalive |-> 1, time |-> 1, interval |-> 0, maxpkt |-> 1]
    /\ opts[sock[t]] = [o \in Opts |-> IF o = TCP_KEEPINTVL THEN 0 ELSE 1]

\* ---------------------------------------------------------------- C8
\* C8: with enable_keepalive = 0, once the keepalive step has succeeded
\* keepalive is off for the rest of the invocation and after it, whatever
\* time, interval and maxpkt are: the function returns 1 when the later
\* steps are accepted and 0 when one of them is rejected.
C8_ZeroDisables ==
  \A t \in Threads :
    /\ args[t].enable_keepalive = 0
    /\ Len(issued[t]) >= 1
    /\ issued[t][1].rc # -1
    => /\ opts[sock[t]][SO_KEEPALIVE] = 0
       /\ Returned(t) =>
            ret[t] = (IF AllAccepted(issued[t]) THEN 1 ELSE 0)

C8_Witness ==
  \E t \in Threads :
    /\ Returned(t) /\ ret[t] = 0
    /\ FailedAtStep(issued[t], 3)
    /\ args[t] = [enable_keepalive |-> 0, time |-> 1, interval |-> 1, maxpkt |-> 1]
    /\ pre[t][sock[t]][SO_KEEPALIVE] = 1
    /\ opts[sock[t]][SO_KEEPALIVE] = 0

\* ---------------------------------------------------------------- C9
\* The settings of a socket after the calls of `log`, had nothing else
\* written to it: the requested value where a call was accepted, the value
\* from before the invocation elsewhere.
Alone(before, a, log) ==
  [o \in Opts |->
     IF \E i \in 1..Len(log) : log[i].opt = o /\ log[i].rc # -1
       THEN Requested(a)[o]
       ELSE before[o]]

\* No other thread's invocation is on the socket of t's invocation.
OnOwnSocket(t) ==
  \A u \in Threads \ {t} : ~Entered(u) \/ sock[u] # sock[t]

\* C9: while concurrent invocations are on different sockets, under every
\* interleaving each socket holds what its own invocation alone would have
\* left (starting from the fresh socket: nothing wrote to it before the
\* invocation either), and each invocation returns what it would have
\* returned alone: 1 when its four calls were accepted, 0 otherwise.
C9_DifferentSocketsIndependent ==
  \A t \in Threads :
    Entered(t) /\ OnOwnSocket(t)
      => /\ opts[sock[t]] = Alone(pre[t][sock[t]], args[t], issued[t])
         /\ pre[t][sock[t]] = Unset
         /\ Returned(t) =>
              ret[t] = (IF AllAccepted(issued[t]) THEN 1 ELSE 0)

C9_Witness ==
  \E t, u \in Threads :
    /\ t # u /\ sock[t] # sock[u]
    /\ Returned(t) /\ Returned(u)
    /\ ret[t] = 1 /\ ret[u] = 0
    /\ FailedAtStep(issued[u], 3)
    /\ args[t] = [enable_keepalive |-> 1, time |-> 1, interval |-> 0, maxpkt |-> 1]
    /\ args[u] = [enable_keepalive |-> 0, time |-> 1, interval |-> 1, maxpkt |-> 0]
    /\ opts[sock[t]] = [o \in Opts |-> IF o = TCP_KEEPINTVL THEN 0 ELSE 1]
    /\ opts[sock[u]] = [o \in Opts |-> IF o = TCP_KEEPIDLE THEN 1 ELSE 0]

\* --------------------------------------------------------------- C10
\* Two invocations on one socket have returned with all their calls accepted.
BothAccepted(t, u) ==
  /\ t # u /\ sock[t] = sock[u]
  /\ Returned(t) /\ Returned(u)
  /\ AllAccepted(issued[t]) /\ AllAccepted(issued[u])

\* Thread t's invocation has a call accepted in this step.
Lands(t) ==
  /\ Len(issued'[t]) = Len(issued[t]) + 1
  /\ issued'[t][Len(issued'[t])].rc # -1

\* C10: concurrent invocations on one socket are not atomic.  Every accepted
\* call leaves its setting at the value its own invocation requested,
\* whatever the other invocation wrote there before, so the call that lands
\* last decides the setting; when both invocations have had all their calls
\* accepted both return 1 and each setting holds the value one of the two
\* requested, not necessarily the same one for every setting.
C10_SameSocketMixes ==
  /\ [](\A t, u \in Threads :
          BothAccepted(t, u)
            => /\ ret[t] = 1 /\ ret[u] = 1
               /\ \A o \in Opts :
                    opts[sock[t]][o]
                      \in {Requested(args[t])[o], Requested(args[u])[o]})
  /\ [][\A t \in Threads :
          Lands(t)
            => LET o == issued'[t][Len(issued'[t])].opt
               IN opts'[sock[t]][o] = Requested(args[t])[o]]_vars

\* Idle time from one invocation and probe interval from the other, a
\* configuration neither invocation asked for.
C10_Witness ==
  \E t, u \in Threads :
    /\ t # u /\ sock[t] = sock[u]
    /\ Returned(t) /\ Returned(u)
    /\ ret[t] = 1 /\ ret[u] = 1
    /\ args[t].time # args[u].time
    /\ args[t].interval # args[u].interval
    /\ opts[sock[t]][TCP_KEEPIDLE] = args[t].time
    /\ opts[sock[t]][TCP_KEEPINTVL] = args[u].interval
====
